---- MODULE Spec2Model ----
(***************************************************************************)
(* Model of app.py, the Gemini historical artifact description app:        *)
(*   - the module-level configuration (credential, model catalogue query,  *)
(*     preferred-model selection),                                         *)
(*   - get_gemini_analysis (the fallback chain over the model list),       *)
(*   - main(), the Streamlit script that is rerun on every interaction.    *)
(*                                                                         *)
(* Strings the code inspects are modelled by what the code does with them: *)
(*   - a provider model name is the sequence of its '/'-separated          *)
(*     segments, so that name.split('/')[-1] is its last segment;          *)
(*   - a note is a sequence of characters, so that strip() trims it;       *)
(*   - an error message is a sequence of phrases, lower() maps each        *)
(*     phrase, and `kw in s` is the occurrence of the phrase kw.           *)
(***************************************************************************)
EXTENDS Integers, Sequences, FiniteSets, TLC

VARIABLES
    pc,               \* position of the process: "config", "list", "select", "main", "ready"
    GOOGLE_API_KEY,   \* app.py:24, TRUE iff the credential is set (truthy)
    stream,           \* what genai.list_models() has still to yield
    AVAILABLE_MODELS, \* app.py:28/33/40/43
    GEMINI_MODEL,     \* app.py:27/47..55
    list_fault,       \* history: "none", or how list_models() failed: "clean" / "partial"
    uploaded_file,    \* st.file_uploader widget value
    user_notes,       \* st.text_area widget value
    sidebar,          \* what the sidebar of the last script run shows
    shown,            \* what the results section of the last script run shows
    ipc,              \* get_gemini_analysis: "idle", "loop", "returned", "raised"
    models_to_try,    \* app.py:91
    idx,              \* position of the for loop of app.py:95 (1-based)
    last_error,       \* app.py:93/110: <<>> is None, <<m>> an exception with message m
    pil_image,        \* argument of get_gemini_analysis
    notes_arg,        \* argument user_notes of get_gemini_analysis
    result,           \* what get_gemini_analysis returned or raised
    preview,          \* what the preview panel of the last script run shows
    calls,            \* history: the generate_content calls of the current invocation
    last_outcome,     \* history: text or message of the most recent generate_content call
    superseded        \* history: a recorded failure was replaced by one with another message

vars == <<pc, GOOGLE_API_KEY, stream, AVAILABLE_MODELS, GEMINI_MODEL, list_fault,
          uploaded_file, user_notes, sidebar, preview, shown, ipc, models_to_try, idx,
          last_error, pil_image, notes_arg, result, calls, last_outcome,
          superseded>>

configVars == <<GOOGLE_API_KEY, stream, AVAILABLE_MODELS, GEMINI_MODEL, list_fault>>
invokerVars == <<ipc, models_to_try, idx, last_error, pil_image, notes_arg, result,
                 calls, last_outcome, superseded>>

----------------------------------------------------------------------------
(* Bounds *)

MaxCatalog == 3     \* longest listing the provider returns
MaxNoteLen == 2     \* longest note typed, in characters
MaxMsgLen == 2      \* longest provider error message, in phrases

----------------------------------------------------------------------------
(* Helpers *)

Range(s) == {s[i] : i \in DOMAIN s}

SeqsUpTo(S, n) == UNION {[1..k -> S] : k \in 0..n}

None == "None"

NoResult == [kind |-> "none", value |-> <<>>]

----------------------------------------------------------------------------
(* The provider's catalogue *)

Flash25 == "gemini-2.5-flash"
Flash20 == "gemini-2.0-flash"
Pro25 == "gemini-2.5-pro"

\* A model object of genai.list_models(): its name, and its
\* supported_generation_methods attribute when it has one.
Descriptor(prefix, id, has, methods) ==
    [name |-> <<prefix, id>>, has_methods |-> has, supported_generation_methods |-> methods]

Descriptors ==
    { Descriptor("models", Flash25, TRUE, {"generateContent", "countTokens"}),
      Descriptor("models", Flash20, TRUE, {"generateContent"}),
      Descriptor("models", Pro25, TRUE, {"generateContent"}),
      Descriptor("models", "gemini-1.5-pro", TRUE, {"generateContent"}),
      Descriptor("models", "gemini-1.5-flash", TRUE, {"generateContent"}),
      Descriptor("tunedModels", Flash25, TRUE, {"generateContent"}),
      Descriptor("models", "embedding-001", TRUE, {"embedContent"}),
      Descriptor("models", "aqa", FALSE, {}) }

\* a listing names no resource twice
Catalogs ==
    {c \in SeqsUpTo(Descriptors, MaxCatalog) :
        \A i, j \in DOMAIN c : i # j => c[i].name # c[j].name}

\* model.name.split('/')[-1]
model_name(model) == model.name[Len(model.name)]

\* app.py:38-40, the filter of one listed model
Collect(avail, model) ==
    IF model.has_methods /\ "generateContent" \in model.supported_generation_methods
    THEN Append(avail, model_name(model))
    ELSE avail

FallbackModels == <<Flash25, Flash20, Pro25>>

\* app.py:41-43, the except branch: what AVAILABLE_MODELS becomes
OnListErrorKeepsPartial(avail) == IF avail = <<>> THEN FallbackModels ELSE avail

OnListError(avail) == FallbackModels

\* app.py:46-55
SelectBestByPosition(avail) ==
    IF avail # <<>> THEN avail[1] ELSE Flash25

SelectBest(avail) ==
    IF Flash25 \in Range(avail) THEN Flash25
    ELSE IF Flash20 \in Range(avail) THEN Flash20
    ELSE IF Pro25 \in Range(avail) THEN Pro25
    ELSE IF avail # <<>> THEN avail[1]
    ELSE Flash25

----------------------------------------------------------------------------
(* Module-level configuration, app.py:23-55 *)

Init ==
    /\ pc = "config"
    /\ GOOGLE_API_KEY \in BOOLEAN
    /\ stream = <<>>
    /\ AVAILABLE_MODELS = <<>>
    /\ GEMINI_MODEL = None
    /\ list_fault = "none"
    /\ uploaded_file = None
    /\ user_notes = <<>>
    /\ sidebar = None
    /\ preview = None
    /\ shown = None
    /\ ipc = "idle"
    /\ models_to_try = <<>>
    /\ idx = 1
    /\ last_error = <<>>
    /\ pil_image = None
    /\ notes_arg = <<>>
    /\ result = NoResult
    /\ calls = <<>>
    /\ last_outcome = <<>>
    /\ superseded = FALSE

uiVars == <<uploaded_file, user_notes, sidebar, preview, shown>>

\* app.py:26-28: the credential is missing
ConfigNoKey ==
    /\ pc = "config"
    /\ ~GOOGLE_API_KEY
    /\ GEMINI_MODEL' = Flash25
    /\ AVAILABLE_MODELS' = <<>>
    /\ pc' = "main"
    /\ UNCHANGED <<GOOGLE_API_KEY, stream, list_fault, uiVars, invokerVars>>

\* app.py:29-35: configure, and start the listing query
ConfigKey(Cats) ==
    /\ pc = "config"
    /\ GOOGLE_API_KEY
    /\ AVAILABLE_MODELS' = <<>>
    /\ \E cat \in Cats : stream' = cat
    /\ pc' = "list"
    /\ UNCHANGED <<GOOGLE_API_KEY, GEMINI_MODEL, list_fault, uiVars, invokerVars>>

\* app.py:35-40: one iteration of the for loop over list_models()
ListNext ==
    /\ pc = "list"
    /\ stream # <<>>
    /\ AVAILABLE_MODELS' = Collect(AVAILABLE_MODELS, Head(stream))
    /\ stream' = Tail(stream)
    /\ UNCHANGED <<pc, GOOGLE_API_KEY, GEMINI_MODEL, list_fault, uiVars, invokerVars>>

\* app.py:41-43: the query raises, at its start or between two models
ListRaise ==
    /\ pc = "list"
    /\ list_fault' = IF AVAILABLE_MODELS = <<>> THEN "clean" ELSE "partial"
    /\ AVAILABLE_MODELS' = OnListError(AVAILABLE_MODELS)
    /\ stream' = <<>>
    /\ pc' = "select"
    /\ UNCHANGED <<GOOGLE_API_KEY, GEMINI_MODEL, uiVars, invokerVars>>

\* the listing is exhausted
ListEnd ==
    /\ pc = "list"
    /\ stream = <<>>
    /\ pc' = "select"
    /\ UNCHANGED <<configVars, uiVars, invokerVars>>

\* app.py:45-55
Select ==
    /\ pc = "select"
    /\ GEMINI_MODEL' = SelectBest(AVAILABLE_MODELS)
    /\ pc' = "main"
    /\ UNCHANGED <<GOOGLE_API_KEY, stream, AVAILABLE_MODELS, list_fault, uiVars, invokerVars>>

----------------------------------------------------------------------------
(* get_gemini_analysis, app.py:87-115 *)

ARTIFACT_ANALYSIS_PROMPT == [part |-> "prompt", text |-> <<"ARTIFACT_ANALYSIS_PROMPT">>]

Whitespace == {" ", "\n"}

RECURSIVE LStrip(_)
LStrip(s) == IF s # <<>> /\ Head(s) \in Whitespace THEN LStrip(Tail(s)) ELSE s

RECURSIVE RStrip(_)
RStrip(s) ==
    IF s # <<>> /\ s[Len(s)] \in Whitespace THEN RStrip(SubSeq(s, 1, Len(s) - 1)) ELSE s

\* str.strip()
Strip(s) == RStrip(LStrip(s))

\* f"\nAdditional Context from User: {user_notes}\n"
ContextPart(notes) ==
    [part |-> "text", text |-> <<"\n", "Additional Context from User: ">> \o notes \o <<"\n">>]

ImagePart(image) == [part |-> "image", text |-> <<image>>]

\* app.py:99-104
BuildContentNoStrip(notes, image) ==
    IF notes # <<>>
    THEN <<ARTIFACT_ANALYSIS_PROMPT, ContextPart(notes), ImagePart(image)>>
    ELSE <<ARTIFACT_ANALYSIS_PROMPT, ImagePart(image)>>

BuildContent(notes, image) ==
    IF Strip(notes) # <<>>
    THEN <<ARTIFACT_ANALYSIS_PROMPT, ContextPart(notes), ImagePart(image)>>
    ELSE <<ARTIFACT_ANALYSIS_PROMPT, ImagePart(image)>>

\* app.py:91
ModelsToTryNoDefault(avail) == avail

ModelsToTry(avail) == IF avail # <<>> THEN avail ELSE <<Flash25, Flash20, Pro25>>

\* app.py:110, last_error = e
RecordFirstError(prev, e) == IF prev = <<>> THEN <<e>> ELSE prev

RecordError(prev, e) == <<e>>

\* str(last_error)
Str(err) == IF err = <<>> THEN <<"None">> ELSE err[1]

\* app.py:114
ErrorMsg(err) == <<"Failed to analyze: ">> \o Str(err)

\* app.py:87-93: the call, up to the head of the loop
Invoke(notes, image) ==
    /\ ipc' = "loop"
    /\ notes_arg' = notes
    /\ pil_image' = image
    /\ models_to_try' = ModelsToTry(AVAILABLE_MODELS)
    /\ idx' = 1
    /\ last_error' = <<>>
    /\ result' = NoResult
    /\ calls' = <<>>
    /\ last_outcome' = <<>>
    /\ superseded' = FALSE

Call(ok) ==
    [model |-> models_to_try[idx], content |-> BuildContent(notes_arg, pil_image), ok |-> ok]

\* app.py:106-107: generate_content answers and its text is returned
SucceedWithoutReturn(text) ==
    /\ calls' = Append(calls, Call(TRUE))
    /\ last_outcome' = text
    /\ result' = [kind |-> "text", value |-> text]
    /\ idx' = idx + 1
    /\ UNCHANGED <<ipc, shown, last_error, superseded>>

Succeed(text) ==
    /\ calls' = Append(calls, Call(TRUE))
    /\ last_outcome' = text
    /\ result' = [kind |-> "text", value |-> text]
    /\ ipc' = "returned"
    /\ shown' = "success"
    /\ UNCHANGED <<idx, last_error, superseded>>

\* app.py:109-111: something in the try raises (GenerativeModel, generate_content or
\* response.text), the error is recorded and the loop continues
Fail(e) ==
    /\ calls' = Append(calls, Call(FALSE))
    /\ last_outcome' = e
    /\ last_error' = RecordError(last_error, e)
    /\ superseded' = (superseded \/ (calls # <<>> /\ last_outcome # e))
    /\ idx' = idx + 1
    /\ UNCHANGED <<ipc, shown, result>>

\* app.py:95-111: one iteration of the loop over models_to_try
Attempt(Msgs, Texts) ==
    /\ ipc = "loop"
    /\ idx <= Len(models_to_try)
    /\ \/ \E text \in Texts : Succeed(text)
       \/ \E e \in Msgs : Fail(e)
    /\ UNCHANGED <<pc, configVars, uploaded_file, user_notes, sidebar, preview,
                   models_to_try, pil_image, notes_arg>>

----------------------------------------------------------------------------
(* The troubleshooting branches of main(), app.py:374-439 *)

\* str.lower() of one phrase
LowerPhrase(p) ==
    CASE p = "Unauthorized" -> "unauthorized"
      [] p = "UNAUTHORIZED" -> "unauthorized"
      [] p = "Not Found" -> "not found"
      [] p = "Not Supported" -> "not supported"
      [] p = "Permission" -> "permission"
      [] p = "Invalid" -> "invalid"
      [] p = "Rate Limit" -> "rate limit"
      [] p = "Failed to analyze: " -> "failed to analyze: "
      [] p = "None" -> "none"
      [] OTHER -> p

Lower(s) == [i \in DOMAIN s |-> LowerPhrase(s[i])]

\* kw in s
In(kw, s) == \E i \in DOMAIN s : s[i] = kw

\* app.py:379-439
ClassifyCaseSensitive(error_str) ==
    LET error_msg == error_str IN
    IF In("not found", error_msg) \/ In("not supported", error_msg)
    THEN "no_compatible_models"
    ELSE IF In("401", error_msg) \/ In("permission", error_msg)
            \/ In("unauthorized", error_msg) \/ In("invalid", error_msg)
    THEN "authentication_error"
    ELSE IF In("rate limit", error_msg)
    THEN "rate_limit"
    ELSE "error_details"

Classify(error_str) ==
    LET error_msg == Lower(error_str) IN
    IF In("not found", error_msg) \/ In("not supported", error_msg)
    THEN "no_compatible_models"
    ELSE IF In("401", error_msg) \/ In("permission", error_msg)
            \/ In("unauthorized", error_msg) \/ In("invalid", error_msg)
    THEN "authentication_error"
    ELSE IF In("rate limit", error_msg)
    THEN "rate_limit"
    ELSE "error_details"

\* app.py:113-115 and 374-439: every model failed; the error is raised and main()
\* shows the troubleshooting branch its message selects
Exhausted ==
    /\ ipc = "loop"
    /\ idx > Len(models_to_try)
    /\ result' = [kind |-> "error", value |-> ErrorMsg(last_error)]
    /\ ipc' = "raised"
    /\ shown' = Classify(ErrorMsg(last_error))
    /\ UNCHANGED <<pc, configVars, uploaded_file, user_notes, sidebar, preview,
                   models_to_try, idx, last_error, pil_image, notes_arg, calls,
                   last_outcome, superseded>>

----------------------------------------------------------------------------
(* main(), app.py:122-439: one run of the script *)

Files == {"vase.jpg", "coin.png", "broken.png"}

\* app.py:319-339: Image.open(uploaded_file).convert("RGB"), None when there is no
\* upload or when decoding raises
Decode(file) ==
    CASE file = "vase.jpg" -> "RGB(vase.jpg)"
      [] file = "coin.png" -> "RGB(coin.png)"
      [] OTHER -> None

\* app.py:250-261
Sidebar == IF GOOGLE_API_KEY THEN "api_key_configured" ELSE "api_key_missing"

\* app.py:319-339
Preview(file) ==
    IF file = None THEN "upload_prompt"
    ELSE IF Decode(file) = None THEN "could_not_load_image"
    ELSE "image"

\* app.py:299, disabled=
ButtonDisabled(file) == file = None \/ ~GOOGLE_API_KEY

\* app.py:345-353: what a pressed button leads to
DispatchNoImageCheck(image) ==
    IF ~GOOGLE_API_KEY THEN "key_not_configured"
    ELSE "invoke"

Dispatch(image) ==
    IF image = None THEN "invalid_image"
    ELSE IF ~GOOGLE_API_KEY THEN "key_not_configured"
    ELSE "invoke"

\* a run of the script in which the button reads False: the results section is empty
Render(file) ==
    /\ sidebar' = Sidebar
    /\ preview' = Preview(file)
    /\ shown' = "nothing"
    /\ ipc' = "idle"
    /\ models_to_try' = <<>>
    /\ idx' = 1
    /\ last_error' = <<>>
    /\ pil_image' = None
    /\ notes_arg' = <<>>
    /\ result' = NoResult
    /\ calls' = <<>>
    /\ last_outcome' = <<>>
    /\ superseded' = FALSE

\* the first run of the script, when the page is opened
FirstRun ==
    /\ pc = "main"
    /\ pc' = "ready"
    /\ Render(uploaded_file)
    /\ UNCHANGED <<configVars, uploaded_file, user_notes>>

\* the user uploads, replaces or removes the file; the script reruns
Upload(Fs) ==
    /\ pc = "ready"
    /\ ipc # "loop"
    /\ \E file \in Fs \cup {None} :
          /\ file # uploaded_file
          /\ uploaded_file' = file
          /\ Render(file)
    /\ UNCHANGED <<pc, configVars, user_notes>>

\* the user edits the notes; the script reruns
TypeNotes(Nts) ==
    /\ pc = "ready"
    /\ ipc # "loop"
    /\ \E notes \in Nts :
          /\ notes # user_notes
          /\ user_notes' = notes
    /\ Render(uploaded_file)
    /\ UNCHANGED <<pc, configVars, uploaded_file>>

\* the user presses "Analyze Artifact"; a disabled button cannot be pressed
ClickAnalyze ==
    /\ pc = "ready"
    /\ ipc # "loop"
    /\ ~ButtonDisabled(uploaded_file)
    /\ sidebar' = Sidebar
    /\ preview' = Preview(uploaded_file)
    /\ LET image == Decode(uploaded_file) IN
       IF Dispatch(image) = "invoke"
       THEN /\ Invoke(user_notes, image)
            /\ shown' = "spinner"
       ELSE /\ shown' = Dispatch(image)
            /\ ipc' = "idle"
            /\ models_to_try' = <<>>
            /\ idx' = 1
            /\ last_error' = <<>>
            /\ pil_image' = None
            /\ notes_arg' = <<>>
            /\ result' = NoResult
            /\ calls' = <<>>
            /\ last_outcome' = <<>>
            /\ superseded' = FALSE
    /\ UNCHANGED <<pc, configVars, uploaded_file, user_notes>>

----------------------------------------------------------------------------
(* Inputs *)

NoteChars == {" ", "\n", "a"}

Notes == SeqsUpTo(NoteChars, MaxNoteLen)

Texts == {<<"# Report A">>, <<"# Report B">>}

\* messages of the provider's failures
Phrases == {"timeout", "quota"}

Messages == SeqsUpTo(Phrases, 1) \ {<<>>}

\* phrases the troubleshooting branches look for, in both cases, and one they do not
ErrorPhrases ==
    {"Unauthorized", "unauthorized", "not found", "Not Supported", "401",
     "permission", "Invalid", "rate limit", "timeout"}

ErrorMessages == SeqsUpTo(ErrorPhrases, MaxMsgLen) \ {<<>>}

SmallCatalogs ==
    { <<>>,
      <<Descriptor("models", Pro25, TRUE, {"generateContent"})>> }

----------------------------------------------------------------------------
(* Specifications *)

NextWith(Cats, Fs, Nts, Msgs, Txts) ==
    \/ ConfigNoKey
    \/ ConfigKey(Cats)
    \/ ListNext
    \/ ListRaise
    \/ ListEnd
    \/ Select
    \/ FirstRun
    \/ Upload(Fs)
    \/ TypeNotes(Nts)
    \/ ClickAnalyze
    \/ Attempt(Msgs, Txts)
    \/ Exhausted

Next == NextWith(Catalogs, Files, Notes, Messages, Texts)

\* every catalogue, note and file; two failure messages
Spec == Init /\ [][Next]_vars

NextErrors == NextWith(SmallCatalogs, {"vase.jpg"}, {<<>>, <<"a">>}, ErrorMessages, {<<"# Report A">>})

\* every failure message; few catalogues, notes and files
SpecErrors == Init /\ [][NextErrors]_vars

----------------------------------------------------------------------------
(* Properties *)

Configured == pc \in {"main", "ready"}

Failed(i) == ~calls[i].ok

\* C1: the invoker calls the models in list order, a call that succeeds is the last
\* call of the invocation, and the invoker returns the text of that call: the first
\* model that succeeds ends the chain and no later model is called.
FirstSuccessReturns ==
    /\ Len(calls) <= Len(models_to_try)
    /\ \A i \in DOMAIN calls : calls[i].model = models_to_try[i]
    /\ \A i \in DOMAIN calls :
          calls[i].ok => /\ i = Len(calls)
                         /\ ipc = "returned"
                         /\ result = [kind |-> "text", value |-> last_outcome]
    /\ ipc = "returned" =>
          /\ calls # <<>>
          /\ calls[Len(calls)].ok
          /\ \A j \in 1..(Len(calls) - 1) : Failed(j)

\* the second of three models succeeded after the first failed; the third was not called
FirstSuccessReturnsWitness ==
    /\ ipc = "returned"
    /\ Len(models_to_try) = 3
    /\ Len(calls) = 2
    /\ Failed(1)
    /\ result.value = <<"# Report B">>

\* C2: when every model failed, the error raised is "Failed to analyze: " followed by
\* the message of the last model's failure, whatever the earlier failures said, and
\* it is never the text of None.
AllFailReportsLast ==
    ipc = "raised" =>
        /\ models_to_try # <<>>
        /\ Len(calls) = Len(models_to_try)
        /\ \A i \in DOMAIN calls : Failed(i)
        /\ calls[Len(calls)].model = models_to_try[Len(models_to_try)]
        /\ last_error # <<>>
        /\ result = [kind |-> "error", value |-> <<"Failed to analyze: ">> \o last_outcome]
        /\ result.value # <<"Failed to analyze: ", "None">>

\* three models failed, not all with the same message
AllFailReportsLastWitness ==
    /\ ipc = "raised"
    /\ Len(calls) = 3
    /\ superseded
    /\ result.value = <<"Failed to analyze: ", "quota">>

\* C3: the first model the invoker calls is the preferred model GEMINI_MODEL.
FirstAttemptIsPreferred ==
    calls # <<>> => calls[1].model = GEMINI_MODEL

\* C4: the list the invoker iterates is never empty, whatever the configuration: an
\* empty AVAILABLE_MODELS is replaced by the three default identifiers, a non-empty
\* one is used as it is.
ModelListNeverEmpty ==
    /\ Configured =>
          /\ ModelsToTry(AVAILABLE_MODELS) # <<>>
          /\ AVAILABLE_MODELS = <<>> =>
                ModelsToTry(AVAILABLE_MODELS) = <<Flash25, Flash20, Pro25>>
    /\ ipc # "idle" =>
          /\ Len(models_to_try) >= 1
          /\ models_to_try =
                IF AVAILABLE_MODELS = <<>> THEN <<Flash25, Flash20, Pro25>>
                ELSE AVAILABLE_MODELS

\* the listing succeeded with no generation-capable model, and the invoker iterates
\* the default list
ModelListNeverEmptyWitness ==
    /\ GOOGLE_API_KEY
    /\ list_fault = "none"
    /\ AVAILABLE_MODELS = <<>>
    /\ ipc = "loop"
    /\ Len(calls) = 1
    /\ models_to_try = <<Flash25, Flash20, Pro25>>

\* C5: once the listing query has failed, at its start or after models were
\* collected, configuration goes on and AVAILABLE_MODELS is exactly the static
\* fallback list, which is non-empty and holds gemini-2.5-flash; what was collected
\* is gone.
ListFailureFallsBack ==
    list_fault # "none" =>
        /\ pc \in {"select", "main", "ready"}
        /\ AVAILABLE_MODELS = <<"gemini-2.5-flash", "gemini-2.0-flash", "gemini-2.5-pro">>
        /\ AVAILABLE_MODELS # <<>>
        /\ "gemini-2.5-flash" \in Range(AVAILABLE_MODELS)

\* the query failed after entries had been collected, and the app is up
ListFailureFallsBackWitness ==
    /\ list_fault = "partial"
    /\ pc = "ready"
    /\ GEMINI_MODEL = "gemini-2.5-flash"

\* identifiers of the flash and pro tiers, by name
FlashTier == {"gemini-2.5-flash", "gemini-2.0-flash", "gemini-1.5-flash"}
ProTier == {"gemini-2.5-pro", "gemini-1.5-pro"}

Has(id) == id \in Range(AVAILABLE_MODELS)

SelectionPriority ==
    /\ GEMINI_MODEL # None
    /\ Has(Flash25) => GEMINI_MODEL = Flash25
    /\ ~Has(Flash25) /\ Has(Flash20) => GEMINI_MODEL = Flash20
    /\ ~Has(Flash25) /\ ~Has(Flash20) /\ Has(Pro25) => GEMINI_MODEL = Pro25
    /\ ~Has(Flash25) /\ ~Has(Flash20) /\ ~Has(Pro25) /\ AVAILABLE_MODELS # <<>> =>
          GEMINI_MODEL = AVAILABLE_MODELS[1]
    /\ AVAILABLE_MODELS = <<>> => GEMINI_MODEL = Flash25

\* C6 as stated: the priority, and a catalogue with a pro-tier and a flash-tier
\* identifier always selects a flash-tier identifier.
FlashTierAlwaysSelected ==
    Configured =>
        /\ SelectionPriority
        /\ (\E id \in ProTier : Has(id)) /\ (\E id \in FlashTier : Has(id)) =>
              GEMINI_MODEL \in FlashTier

\* C6, amended: the selected model is defined and follows the priority
\* gemini-2.5-flash, gemini-2.0-flash, gemini-2.5-pro, first entry, gemini-2.5-flash;
\* a list with gemini-2.5-pro and one of the two named flash identifiers selects
\* that flash identifier, wherever they stand in the list.
SelectionFollowsPriority ==
    Configured =>
        /\ SelectionPriority
        /\ Has(Pro25) /\ (Has(Flash25) \/ Has(Flash20)) =>
              /\ GEMINI_MODEL \in {Flash25, Flash20}
              /\ Has(GEMINI_MODEL)

\* the catalogue lists the pro identifier before the flash identifier
SelectionFollowsPriorityWitness ==
    /\ pc = "ready"
    /\ list_fault = "none"
    /\ AVAILABLE_MODELS = <<Pro25, "gemini-1.5-pro", Flash20>>
    /\ GEMINI_MODEL = Flash20

Blank(notes) == \A k \in DOMAIN notes : notes[k] \in {" ", "\n"}

\* C7: every payload sent starts with the instruction template and ends with the
\* image; a note that is not blank stands between them, untrimmed, in the labelled
\* context segment; a blank note leaves exactly the template and the image.
PayloadShape ==
    /\ ipc # "idle" => notes_arg = user_notes /\ pil_image = Decode(uploaded_file)
    /\ \A i \in DOMAIN calls :
          LET content == calls[i].content IN
          /\ content[1] = ARTIFACT_ANALYSIS_PROMPT
          /\ content[Len(content)] = [part |-> "image", text |-> <<pil_image>>]
          /\ IF Blank(notes_arg)
             THEN Len(content) = 2
             ELSE /\ Len(content) = 3
                  /\ content[2] =
                        [part |-> "text",
                         text |-> <<"\n", "Additional Context from User: ">>
                                      \o notes_arg \o <<"\n">>]

\* a note with a leading blank was sent as typed
PayloadShapeWitness ==
    /\ calls # <<>>
    /\ user_notes = <<" ", "a">>
    /\ Len(calls[1].content) = 3
    /\ calls[1].content[2].text[3] = " "

\* C8: no model identifier is called twice in one invocation, and the number of
\* calls never exceeds the number of distinct models.
NoModelAttemptedTwice ==
    /\ \A i, j \in DOMAIN calls : i # j => calls[i].model # calls[j].model
    /\ Len(calls) <= Cardinality(Range(models_to_try))

Mentions(s, phrases) == \E i \in DOMAIN s : s[i] \in phrases

Unauthorized == {"unauthorized", "Unauthorized", "UNAUTHORIZED"}
NotFoundOrSupported == {"not found", "Not Found", "not supported", "Not Supported"}

\* C9 as stated: a terminal error whose message contains "unauthorized", in any
\* case, shows the authentication troubleshooting branch.
UnauthorizedShowsAuthBranch ==
    ipc = "raised" /\ Mentions(result.value, Unauthorized) =>
        shown = "authentication_error"

\* C9, amended: a terminal error whose message contains "unauthorized", in any case,
\* and neither "not found" nor "not supported", shows the authentication
\* troubleshooting branch, whatever else it contains.
UnauthorizedShowsAuthBranchUnlessNotFound ==
    /\ ipc = "raised" /\ Mentions(result.value, Unauthorized)
         /\ ~Mentions(result.value, NotFoundOrSupported) =>
            shown = "authentication_error"
    /\ ipc = "raised" => shown # "spinner"

\* every model failed, the last with "rate limit" and a capitalised "Unauthorized"
UnauthorizedShowsAuthBranchWitness ==
    /\ ipc = "raised"
    /\ Len(calls) = 3
    /\ result.value = <<"Failed to analyze: ", "rate limit", "Unauthorized">>
    /\ shown = "authentication_error"

\* C10: without the credential the button is disabled, the sidebar reports the
\* missing key and the invoker is never entered; the invoker is entered only with
\* the credential and a decoded image, so never after an upload that fails to decode.
InvokerNeedsKeyAndImage ==
    /\ ipc # "idle" =>
          /\ GOOGLE_API_KEY
          /\ uploaded_file # None
          /\ Decode(uploaded_file) # None
          /\ pil_image = Decode(uploaded_file)
    /\ ~GOOGLE_API_KEY =>
          /\ ButtonDisabled(uploaded_file)
          /\ calls = <<>>
          /\ pc = "ready" => sidebar = "api_key_missing"
    /\ uploaded_file # None /\ Decode(uploaded_file) = None => calls = <<>>

\* without the credential, a file was uploaded and a note typed
InvokerNeedsKeyAndImageWitness ==
    /\ ~GOOGLE_API_KEY
    /\ pc = "ready"
    /\ uploaded_file = "vase.jpg"
    /\ user_notes # <<>>
    /\ sidebar = "api_key_missing"
    /\ ipc = "idle"

====
